---- MODULE Spec2Model ----
(***************************************************************************)
(* A model of the annoto-gai caption pipeline:                             *)
(*   - getCombinedTranscripts  (src/transcriptLoader.py), the window       *)
(*     segmenter;                                                          *)
(*   - processResponseData     (src/LangChainQuestionGenerator.py), the    *)
(*     citation resolver;                                                  *)
(*   - OpenAIBot.getResponse   (src/configData.py), the retry loop;        *)
(*   - configVars.setFromEnv, retrieveTranscript and                       *)
(*     retrieveLangChainQuestions, the configuration and the two cached    *)
(*     stages;                                                             *)
(*   - processSrtFiles         (src/transcriptLoader.py), the caption      *)
(*     parser.                                                             *)
(* Times are whole seconds since midnight (every timestamp is parsed with  *)
(* a time-only format, so all of them lie on one day).                     *)
(***************************************************************************)
EXTENDS Integers, Sequences, FiniteSets, TLC

(***************************************************************************)
(* Bounds of the model.                                                    *)
(***************************************************************************)
MaxLen == 3
MaxTime == 3
MaxWindowSize == 2
MaxCorpus == 2
MaxQuestions == 2
MaxCitations == 2
MaxTokens == 2
MaxRuns == 2
MaxCues == 2
MaxTextLines == 2
MaxSets == 2

\* cap on emitted windows: a terminating run emits at most one window per
\* caption, so the cap is only met by a run that does not terminate
MaxWindows == MaxLen + 1

\* Timedelta.seconds is the seconds component of a duration, 0..86399
SecondsPerDay == 86400

Lines == {"a", "b"}
Times == 0..MaxTime
WindowSizes == 1..MaxWindowSize

VARIABLES
    transcriptIn,            \* getCombinedTranscripts: the transcript argument
    windowSize,              \* getCombinedTranscripts: the windowSize argument
    transcript,              \* the transcript after sort_values(by="Start")
    currStart,
    duration,
    combinedTranscriptList,
    slicedRows,              \* the rows (positions in transcript) of each emitted slice
    segPc,                   \* "idle", "call", "loop", "done" or "IndexError"
    iterations,              \* the number of iterations of the while loop so far
    responseInfo,            \* processResponseData: responseInfo.questions
    citedTranscript,         \* processResponseData: the transcript argument
    processedData,
    index,                   \* the loop variable of processResponseData
    resolvePc,               \* "idle", "loop", "returned" or "IndexError"
    resolved,                \* the value processResponseData returned, or None
    callComplete,            \* OpenAIBot.getResponse
    callAttemptCount,
    response,                \* the response of the last successful remote call
    tokenUsage,              \* OpenAIBot.tokenUsage
    botLog,                  \* remote calls, their outcomes, sleeps and exits, in order
    botPc,                   \* "idle", "loop", "returned" or "exited"
    botResult,               \* the value getResponse returned, or None
    dotenvExists,            \* whether the file .env exists
    env,                     \* the environment after load_dotenv: name -> <<>> or <<text>>
    config,                  \* the fields of the configVars object
    envImportSuccess,        \* the dict of setFromEnv
    transcriptCache,         \* what dataLoader returns for "transcriptData"
    questionCache,           \* what dataLoader returns for "questionData"
    captions,                \* the caption folder: what validateVideoFiles and processSrtFiles find
    videoData,               \* the TranscriptData retrieveTranscript returned, or None
    questionData,            \* the LangChainQuestionData retrieveLangChainQuestions returned, or None
    pipeLog,                 \* the cache reads and writes and the service calls, in order
    pipePc,                  \* "config", "transcript", "questions", "done" or "exited"
    runs,                    \* the number of runs of the pipeline started so far
    overwrite,               \* the overwrite argument the caller passes to both stages
    passVideoData,           \* whether the caller passes videoData to retrieveLangChainQuestions
    returned,                \* what each completed run returned: its number and both artifacts
    srtCues,                 \* processSrtFiles: the cues the subtitle file was written from
    srtLines,                \* the lines of the file, as readlines() returns them
    srtPos,                  \* the number of lines the loop has consumed
    sentence,                \* the stripped text lines gathered for the current cue
    startTime,               \* "" (here <<>>) or the datetime parsed last (here <<instant>>)
    endTime,
    srtTranscript,           \* the list named transcript in processSrtFiles
    srtPc                    \* "idle", "loop", "returned" or "exited"

segVars == <<transcriptIn, windowSize, transcript, currStart, duration,
             combinedTranscriptList, slicedRows, segPc, iterations>>

resolveVars == <<responseInfo, citedTranscript, processedData, index, resolvePc, resolved>>

botVars == <<callComplete, callAttemptCount, response, tokenUsage, botLog, botPc, botResult>>

pipeVars == <<dotenvExists, env, config, envImportSuccess, transcriptCache, questionCache, captions,
              videoData, questionData, pipeLog, pipePc, runs, overwrite, passVideoData,
              returned>>

srtVars == <<srtCues, srtLines, srtPos, sentence, startTime, endTime, srtTranscript, srtPc>>

vars == <<segVars, resolveVars, botVars, pipeVars, srtVars>>

None == "None"

(***************************************************************************)
(* Caption records and transcripts.                                        *)
(***************************************************************************)
CaptionRecords ==
    {c \in [Line : Lines, Start : Times, End : Times] : c.Start <= c.End}

RECURSIVE SeqsUpTo(_, _)
SeqsUpTo(S, n) ==
    IF n = 0 THEN {<<>>}
    ELSE LET shorter == SeqsUpTo(S, n - 1)
         IN  shorter \cup {Append(s, x) : s \in {t \in shorter : Len(t) = n - 1}, x \in S}

IsSortedByStart(t) ==
    \A i \in 1..(Len(t) - 1) : t[i].Start <= t[i + 1].Start

\* insert row c after every row whose Start is <= c.Start
RECURSIVE InsertByStart(_, _)
InsertByStart(sorted, c) ==
    IF sorted = <<>> THEN <<c>>
    ELSE IF Head(sorted).Start <= c.Start
         THEN <<Head(sorted)>> \o InsertByStart(Tail(sorted), c)
         ELSE <<c>> \o sorted

\* transcript.sort_values(by="Start"): rows in non-decreasing Start, rows
\* with equal Start in their original order
RECURSIVE SortByStart(_)
SortByStart(t) ==
    IF t = <<>> THEN <<>>
    ELSE InsertByStart(SortByStart(SubSeq(t, 1, Len(t) - 1)), t[Len(t)])

\* " ".join(list)
RECURSIVE JoinLines(_)
JoinLines(texts) ==
    IF texts = <<>> THEN ""
    ELSE IF Len(texts) = 1 THEN texts[1]
    ELSE texts[1] \o " " \o JoinLines(Tail(texts))

LinesOf(rows) == [i \in 1..Len(rows) |-> rows[i].Line]

(***************************************************************************)
(* The state of an operation that is not running.                          *)
(***************************************************************************)
SegIdle ==
    /\ transcriptIn = <<>>
    /\ windowSize = 0
    /\ transcript = <<>>
    /\ currStart = 0
    /\ duration = 0
    /\ combinedTranscriptList = <<>>
    /\ slicedRows = <<>>
    /\ segPc = "idle"
    /\ iterations = 0

ResolveIdle ==
    /\ responseInfo = <<>>
    /\ citedTranscript = <<>>
    /\ processedData = <<>>
    /\ index = 0
    /\ resolvePc = "idle"
    /\ resolved = None

BotIdle ==
    /\ callComplete = FALSE
    /\ callAttemptCount = 0
    /\ response = None
    /\ tokenUsage = 0
    /\ botLog = <<>>
    /\ botPc = "idle"
    /\ botResult = None

SrtIdle ==
    /\ srtCues = <<>>
    /\ srtLines = <<>>
    /\ srtPos = 0
    /\ sentence = <<>>
    /\ startTime = <<>>
    /\ endTime = <<>>
    /\ srtTranscript = <<>>
    /\ srtPc = "idle"

(***************************************************************************)
(* getCombinedTranscripts                                                  *)
(***************************************************************************)
\* a mask that also takes the caption starting exactly duration after the
\* cursor
InSlice_Closed(row, cs, dur) ==
    /\ row.Start - cs <= dur
    /\ row.Start >= cs

\* the boolean mask of lines 209-212
InSlice(row, cs, dur) ==
    /\ row.Start - cs < dur
    /\ row.Start >= cs

SliceRows(t, cs, dur) == {i \in 1..Len(t) : InSlice(t[i], cs, dur)}

SlicedTranscript(t, cs, dur) == SelectSeq(t, LAMBDA row : InSlice(row, cs, dur))

\* the loop condition of line 208
LoopCondition == currStart < transcript[Len(transcript)].Start

\* the rows of a transcript in the opposite order
Reverse(t) == [i \in 1..Len(t) |-> t[Len(t) + 1 - i]]

\* the transcripts of at most n rows that are sorted by start
RECURSIVE SortedTranscripts(_)
SortedTranscripts(n) ==
    IF n = 0 THEN {<<>>}
    ELSE LET shorter == SortedTranscripts(n - 1)
             longest == {t \in shorter : Len(t) = n - 1}
         IN  shorter \cup
               {Append(p[1], p[2]) :
                   p \in {q \in longest \X CaptionRecords :
                             q[1] = <<>> \/ q[1][Len(q[1])].Start <= q[2].Start}}

\* the call getCombinedTranscripts(transcript, windowSize): the transcript
\* is in the order of the file, which is by start, or in the opposite order
SegStart ==
    /\ \E t \in SortedTranscripts(MaxLen), opposite \in BOOLEAN :
          transcriptIn = IF opposite THEN Reverse(t) ELSE t
    /\ windowSize \in WindowSizes
    /\ transcript = <<>>
    /\ currStart = 0
    /\ duration = 0
    /\ combinedTranscriptList = <<>>
    /\ slicedRows = <<>>
    /\ segPc = "call"
    /\ iterations = 0

\* lines 202-206: the transcript is sorted, whatever its order, and the
\* cursor is put on the first start
SegBegin ==
    /\ segPc = "call"
    /\ transcriptIn # <<>>
    /\ transcript' = SortByStart(transcriptIn)
    /\ currStart' = SortByStart(transcriptIn)[1].Start
    /\ duration' = windowSize
    /\ segPc' = "loop"
    /\ UNCHANGED <<transcriptIn, windowSize, combinedTranscriptList, slicedRows, iterations>>
    /\ UNCHANGED <<resolveVars, botVars, pipeVars, srtVars>>

\* line 205 on a transcript without rows: transcript.iloc[0] raises
\* IndexError
SegIndexError ==
    /\ segPc = "call"
    /\ transcriptIn = <<>>
    /\ segPc' = "IndexError"
    /\ UNCHANGED <<transcriptIn, windowSize, transcript, currStart, duration,
                   combinedTranscriptList, slicedRows, iterations>>
    /\ UNCHANGED <<resolveVars, botVars, pipeVars, srtVars>>

\* a retry that doubles the duration
SegWiden_Doubles ==
    /\ segPc = "loop"
    /\ LoopCondition
    /\ SlicedTranscript(transcript, currStart, duration) = <<>>
    /\ duration' = 2 * duration
    /\ iterations' = iterations + 1
    /\ UNCHANGED <<transcriptIn, windowSize, transcript, currStart,
                   combinedTranscriptList, slicedRows, segPc>>
    /\ UNCHANGED <<resolveVars, botVars, pipeVars, srtVars>>

\* lines 214-216: an empty slice widens the duration by one second
SegWiden ==
    /\ segPc = "loop"
    /\ LoopCondition
    /\ SlicedTranscript(transcript, currStart, duration) = <<>>
    /\ duration' = (duration % SecondsPerDay) + 1
    /\ iterations' = iterations + 1
    /\ UNCHANGED <<transcriptIn, windowSize, transcript, currStart,
                   combinedTranscriptList, slicedRows, segPc>>
    /\ UNCHANGED <<resolveVars, botVars, pipeVars, srtVars>>

\* lines 218-228: a non-empty slice is emitted as one window
SegEmit ==
    /\ segPc = "loop"
    /\ LoopCondition
    /\ Len(combinedTranscriptList) < MaxWindows
    /\ LET slicedTranscript == SlicedTranscript(transcript, currStart, duration)
       IN  /\ slicedTranscript # <<>>
           /\ combinedTranscriptList' = Append(combinedTranscriptList,
                  [CombinedLines |-> JoinLines(LinesOf(slicedTranscript)),
                   Start |-> slicedTranscript[1].Start,
                   End |-> slicedTranscript[Len(slicedTranscript)].End])
           /\ slicedRows' = Append(slicedRows, SliceRows(transcript, currStart, duration))
           /\ currStart' = slicedTranscript[Len(slicedTranscript)].End
           /\ duration' = windowSize
    /\ iterations' = iterations + 1
    /\ UNCHANGED <<transcriptIn, windowSize, transcript, segPc>>
    /\ UNCHANGED <<resolveVars, botVars, pipeVars, srtVars>>

\* lines 208, 230-236: the loop condition is false, the windows are returned
SegReturn ==
    /\ segPc = "loop"
    /\ ~LoopCondition
    /\ segPc' = "done"
    /\ UNCHANGED <<transcriptIn, windowSize, transcript, currStart, duration,
                   combinedTranscriptList, slicedRows, iterations>>
    /\ UNCHANGED <<resolveVars, botVars, pipeVars, srtVars>>

SegNext == SegBegin \/ SegIndexError \/ SegWiden \/ SegEmit \/ SegReturn

(***************************************************************************)
(* processResponseData                                                     *)
(***************************************************************************)
\* a timestamp in the text form "%H:%M:%S" is the triple of its fields;
\* datetime.strptime(text, "%H:%M:%S"): the instant, in seconds since midnight
Strptime(text) == text[1] * 3600 + text[2] * 60 + text[3]

\* row i of the windowed transcript as processResponseData reads it: window i
\* covers half a minute of minute i
WindowRecord(i) ==
    [CombinedLines |-> IF i % 2 = 0 THEN "a b" ELSE "b",
     Start |-> <<0, i, 0>>, End |-> <<0, i, 30>>]

\* the windowed transcripts: the first n windows, in order
Corpora == {[i \in 1..n |-> WindowRecord(i - 1)] : n \in 0..MaxCorpus}

\* citation IDs the service may return: every valid index of the longest
\* corpus, one past it, and one negative
CitationIds == (0 - 1)..MaxCorpus

\* the citations after the first, which line 288 never reads: repeats of a
\* valid ID or of an ID past the corpus
CitationTails ==
    {[i \in 1..n |-> v] : n \in 0..(MaxCitations - 1), v \in {0, MaxCorpus}}

CitationLists ==
    {<<>>} \cup {<<first>> \o tail : first \in CitationIds, tail \in CitationTails}

\* what the generative service returned for one question, citations aside
QuestionBodies ==
    {[question |-> "q1", answers |-> <<"w", "x", "y", "z">>, correctAnswerIndex |-> 0,
      reason |-> "r1", topic |-> "t1", insertionTime |-> <<0, 0, 30>>],
     [question |-> "q2", answers |-> <<"z", "y", "x", "w">>, correctAnswerIndex |-> 3,
      reason |-> "r2", topic |-> "t2", insertionTime |-> <<0, 1, 5>>]}

\* outputs that fit the schema of Question (lines 32-39: a list of texts and
\* an int) without having 4 answers or an index among them
UncheckedBodies ==
    {[question |-> "q3", answers |-> <<"w", "x", "y">>, correctAnswerIndex |-> 3,
      reason |-> "r3", topic |-> "t3", insertionTime |-> <<0, 0, 30>>],
     [question |-> "q4", answers |-> <<"w", "x", "y", "z">>, correctAnswerIndex |-> 4,
      reason |-> "r4", topic |-> "t4", insertionTime |-> <<0, 0, 30>>]}

\* a Question object from its body and its citations
MakeQuestion(b, c) ==
    [question |-> b.question, answers |-> b.answers,
     correctAnswerIndex |-> b.correctAnswerIndex, reason |-> b.reason,
     topic |-> b.topic, insertionTime |-> b.insertionTime, citations |-> c]

Questions ==
    {MakeQuestion(b, c) : b \in QuestionBodies, c \in CitationLists}
      \cup {MakeQuestion(b, <<0>>) : b \in UncheckedBodies}

\* DataFrame.iloc[i] on n rows: the position (1-based) of the row read, or 0
\* when the read raises IndexError; a negative i counts from the end
IlocRow(n, i) ==
    IF 0 <= i /\ i < n THEN i + 1
    ELSE IF 0 - n <= i /\ i < 0 THEN n + i + 1
    ELSE 0

\* a resolver that reads the last citation instead of the first
CitedRow_LastCitation(question, t) ==
    IF question.citations = <<>> THEN 0
    ELSE IlocRow(Len(t), question.citations[Len(question.citations)])

\* a resolver that falls back on the first window when nothing is cited
CitedRow_GuessWindow(question, t) ==
    IF question.citations = <<>> THEN (IF t = <<>> THEN 0 ELSE 1)
    ELSE IlocRow(Len(t), question.citations[1])

\* line 288, transcript.iloc[question.citations[0]]: the position of the row
\* read, or 0 when citations[0] or iloc raises IndexError
CitedRow(question, t) ==
    IF question.citations = <<>> THEN 0
    ELSE IlocRow(Len(t), question.citations[1])

\* lines 289-297
ProcessedRecord(question, citationData) ==
    [Start |-> Strptime(citationData.Start),
     End |-> Strptime(citationData.End),
     Topic |-> question.topic,
     Question |-> question.question,
     Answers |-> question.answers,
     CorrectAnswerIndex |-> question.correctAnswerIndex,
     Reason |-> question.reason]

\* the state after line 286
ResolveStart ==
    /\ responseInfo \in (SeqsUpTo(Questions, MaxQuestions) \ {<<>>})
    /\ citedTranscript \in Corpora
    /\ processedData = <<>>
    /\ index = 0
    /\ resolvePc = "loop"
    /\ resolved = None

\* lines 287-297, one iteration: processedData is a dict keyed 0, 1, ...,
\* kept here as the sequence of its values
ResolveQuestion ==
    /\ resolvePc = "loop"
    /\ index < Len(responseInfo)
    /\ LET question == responseInfo[index + 1]
           row == CitedRow(question, citedTranscript)
       IN  /\ row # 0
           /\ processedData' = Append(processedData,
                                      ProcessedRecord(question, citedTranscript[row]))
    /\ index' = index + 1
    /\ UNCHANGED <<responseInfo, citedTranscript, resolvePc, resolved>>
    /\ UNCHANGED <<segVars, botVars, pipeVars, srtVars>>

\* line 288 raises IndexError: the call ends without a return value
ResolveIndexError ==
    /\ resolvePc = "loop"
    /\ index < Len(responseInfo)
    /\ CitedRow(responseInfo[index + 1], citedTranscript) = 0
    /\ resolvePc' = "IndexError"
    /\ UNCHANGED <<responseInfo, citedTranscript, processedData, index, resolved>>
    /\ UNCHANGED <<segVars, botVars, pipeVars, srtVars>>

\* line 299
ResolveReturn ==
    /\ resolvePc = "loop"
    /\ index = Len(responseInfo)
    /\ resolved' = processedData
    /\ resolvePc' = "returned"
    /\ UNCHANGED <<responseInfo, citedTranscript, processedData, index>>
    /\ UNCHANGED <<segVars, botVars, pipeVars, srtVars>>

ResolveNext == ResolveQuestion \/ ResolveIndexError \/ ResolveReturn

(***************************************************************************)
(* OpenAIBot.getResponse                                                   *)
(***************************************************************************)
\* line 296
callMaxLimit == 3

\* the exceptions the remote call raises, by the except clause that takes them
Errors == {"AuthenticationError", "RateLimitError", "Timeout", "Exception"}

\* what the remote call returns: choices[0].message.content, usage.total_tokens
Responses == [content : {"r1", "r2"}, total_tokens : 1..MaxTokens]

\* an except clause that retries an authentication failure after a cooldown
ExceptClause_AuthRetried(error) ==
    CASE error = "AuthenticationError" -> <<"sleep60">>
      [] error = "RateLimitError" -> <<"sleep60">>
      [] error = "Timeout" -> <<"sleep60">>
      [] OTHER -> <<>>

\* lines 328-344: what the except clause of an error does, as events
ExceptClause(error) ==
    CASE error = "AuthenticationError" -> <<"exit">>
      [] error = "RateLimitError" -> <<"sleep60">>
      [] error = "Timeout" -> <<"sleep60">>
      [] OTHER -> <<>>

\* a loop that allows one attempt more
LoopGuard_OneMore(complete, count) == ~complete /\ count <= callMaxLimit

\* line 311
LoopGuard(complete, count) == ~complete /\ count < callMaxLimit

\* line 347
TooManyAttempts(count) == count >= callMaxLimit

\* the state after lines 309-310
BotStart ==
    /\ callComplete = FALSE
    /\ callAttemptCount = 0
    /\ response = None
    /\ tokenUsage \in 0..1
    /\ botLog = <<>>
    /\ botPc = "loop"
    /\ botResult = None

\* lines 312-326 and 345: the remote call succeeds
AttemptSucceeds ==
    /\ botPc = "loop"
    /\ LoopGuard(callComplete, callAttemptCount)
    /\ \E r \in Responses : response' = r
    /\ botLog' = botLog \o <<"create", "ok", "sleep1">>
    /\ callComplete' = TRUE
    /\ callAttemptCount' = callAttemptCount + 1
    /\ UNCHANGED <<tokenUsage, botPc, botResult>>
    /\ UNCHANGED <<segVars, resolveVars, pipeVars, srtVars>>

\* lines 312-324, 328-345: the remote call raises; sys.exit in the clause
\* ends the process, otherwise the attempt is counted
AttemptRaises ==
    /\ botPc = "loop"
    /\ LoopGuard(callComplete, callAttemptCount)
    /\ \E error \in Errors :
          LET events == ExceptClause(error)
              exits == \E i \in 1..Len(events) : events[i] = "exit"
          IN  /\ botLog' = botLog \o <<"create", error>> \o events
              /\ botPc' = IF exits THEN "exited" ELSE "loop"
              /\ callAttemptCount' = IF exits THEN callAttemptCount
                                     ELSE callAttemptCount + 1
    /\ callComplete' = FALSE
    /\ UNCHANGED <<response, tokenUsage, botResult>>
    /\ UNCHANGED <<segVars, resolveVars, pipeVars, srtVars>>

\* lines 347-351
BotExitTooMany ==
    /\ botPc = "loop"
    /\ ~LoopGuard(callComplete, callAttemptCount)
    /\ TooManyAttempts(callAttemptCount)
    /\ botLog' = botLog \o <<"tooMany", "exit">>
    /\ botPc' = "exited"
    /\ UNCHANGED <<callComplete, callAttemptCount, response, tokenUsage, botResult>>
    /\ UNCHANGED <<segVars, resolveVars, pipeVars, srtVars>>

\* lines 353-357
BotReturn ==
    /\ botPc = "loop"
    /\ ~LoopGuard(callComplete, callAttemptCount)
    /\ ~TooManyAttempts(callAttemptCount)
    /\ callComplete
    /\ tokenUsage' = tokenUsage + response.total_tokens
    /\ botResult' = <<response.content, TRUE>>
    /\ botPc' = "returned"
    /\ UNCHANGED <<callComplete, callAttemptCount, response, botLog>>
    /\ UNCHANGED <<segVars, resolveVars, pipeVars, srtVars>>

BotNext == AttemptSucceeds \/ AttemptRaises \/ BotExitTooMany \/ BotReturn

(***************************************************************************)
(* Python values held by the configuration: a value is tagged with its     *)
(* type, None is the value of type NoneType.                               *)
(***************************************************************************)
PyStr(s) == <<"str", s>>
PyInt(n) == <<"int", n>>
PyBool(b) == <<"bool", b>>
PyNone == <<"NoneType">>
ValueError == <<"ValueError">>

\* bool(value)
Truthy(v) ==
    CASE v[1] = "str" -> v[2] # ""
      [] v[1] = "int" -> v[2] # 0
      [] v[1] = "bool" -> v[2]
      [] OTHER -> FALSE

\* the key a value is stored under in a dict: True and 1, False and 0 are
\* one key
DictKey(v) ==
    CASE v[1] = "int" -> <<"num", v[2]>>
      [] v[1] = "bool" -> <<"num", IF v[2] THEN 1 ELSE 0>>
      [] OTHER -> v

\* d[k] = v
DictPut(d, k, v) == [x \in (DOMAIN d) \cup {k} |-> IF x = k THEN v ELSE d[x]]

\* the decimal texts int() accepts, among the texts of the model
IntOfText == [t \in {"-1", "0", "1", "2"} |->
                 CASE t = "-1" -> 0 - 1 [] t = "0" -> 0 [] t = "1" -> 1 [] OTHER -> 2]

\* int(value)
IntCast(v) ==
    CASE v[1] = "int" -> v
      [] v[1] = "bool" -> PyInt(IF v[2] THEN 1 ELSE 0)
      [] v[1] = "str" /\ v[2] \in DOMAIN IntOfText -> PyInt(IntOfText[v[2]])
      [] OTHER -> ValueError

(***************************************************************************)
(* configVars                                                              *)
(***************************************************************************)
CredParts == <<"KEY", "BASE", "VERSION", "MODEL", "ORGANIZATION">>

\* lines 159-162
CredEnvName(credPart) ==
    IF credPart = "BASE" THEN "AZURE_OPENAI_ENDPOINT" ELSE "OPENAI_API_" \o credPart

EnvNames ==
    {CredEnvName(CredParts[i]) : i \in 1..Len(CredParts)}
        \cup {"VIDEO_TO_USE", "WINDOW_SIZE", "OVERWRITE_EXISTING_TRANSCRIPT",
              "OVERWRITE_EXISTING_TOPICMODEL", "OVERWRITE_EXISTING_QUESTIONS",
              "LANGCHAIN_PROMPT", "QUESTION_PROMPT"}

\* lines 50-76, configVars.__init__
DefaultConfig ==
    [KEY |-> PyStr(""), BASE |-> PyStr(""), VERSION |-> PyStr(""), MODEL |-> PyStr(""),
     ORGANIZATION |-> PyStr(""),
     videoToUse |-> PyStr(""),
     windowSize |-> PyInt(30),
     overwriteTranscriptData |-> PyBool(FALSE),
     overwriteTopicModel |-> PyBool(FALSE),
     overwriteQuestionData |-> PyBool(FALSE),
     langchainPrompt |-> PyStr("label"),
     questionPrompt |-> PyStr("bot")]

\* lines 111-119: the casting of configFetch, None on ValueError
Cast(value, casting) ==
    CASE casting = "str" -> value
      [] casting = "int" -> (IF IntCast(value) = ValueError THEN PyNone ELSE IntCast(value))
      [] casting = "bool" -> (IF IntCast(value) = ValueError THEN PyNone
                              ELSE PyBool(IntCast(value)[2] # 0))
      [] OTHER -> value

\* lines 121-124: the validation lambdas of setFromEnv
Validates(value, validation) ==
    CASE validation = "nonEmpty" -> value[2] # ""
      [] validation = "positive" -> value[2] > 0
      [] OTHER -> TRUE

\* a fetch that falls back on the default when casting or validation fails
ConfigFetch_DefaultOnError(e, name, default, casting, validation) ==
    LET value == IF e[name] = <<>> THEN default ELSE PyStr(e[name][1])
        cast == Cast(value, casting)
    IN  IF cast = PyNone THEN default
        ELSE IF Validates(cast, validation) THEN cast
        ELSE default

\* lines 94-126, configFetch: the value, or None when casting or validation fails
ConfigFetch(e, name, default, casting, validation) ==
    LET value == IF e[name] = <<>> THEN default ELSE PyStr(e[name][1])
        cast == Cast(value, casting)
    IN  IF cast = PyNone THEN PyNone
        ELSE IF Validates(cast, validation) THEN cast
        ELSE PyNone

\* the settings in the order setFromEnv fetches them (lines 158-239):
\* field, environment name, casting, validation, and whether the import
\* succeeded only for a bool (lines 197-219) or for any true value
Settings ==
    [i \in 1..Len(CredParts) |->
        [field |-> CredParts[i], name |-> CredEnvName(CredParts[i]),
         casting |-> "str", validation |-> "nonEmpty", needsBool |-> FALSE]]
    \o <<[field |-> "videoToUse", name |-> "VIDEO_TO_USE",
          casting |-> "str", validation |-> "nonEmpty", needsBool |-> FALSE],
         [field |-> "windowSize", name |-> "WINDOW_SIZE",
          casting |-> "int", validation |-> "positive", needsBool |-> FALSE],
         [field |-> "overwriteTranscriptData", name |-> "OVERWRITE_EXISTING_TRANSCRIPT",
          casting |-> "bool", validation |-> "none", needsBool |-> TRUE],
         [field |-> "overwriteTopicModel", name |-> "OVERWRITE_EXISTING_TOPICMODEL",
          casting |-> "bool", validation |-> "none", needsBool |-> TRUE],
         [field |-> "overwriteQuestionData", name |-> "OVERWRITE_EXISTING_QUESTIONS",
          casting |-> "bool", validation |-> "none", needsBool |-> TRUE],
         [field |-> "langchainPrompt", name |-> "LANGCHAIN_PROMPT",
          casting |-> "str", validation |-> "nonEmpty", needsBool |-> FALSE],
         [field |-> "questionPrompt", name |-> "QUESTION_PROMPT",
          casting |-> "str", validation |-> "nonEmpty", needsBool |-> FALSE]>>

\* lines 170-172, 181, 189, 197-199, ...: the flag stored in envImportSuccess
ImportSucceeded(value, needsBool) ==
    IF needsBool THEN value[1] = "bool" ELSE Truthy(value)

\* lines 156-239: the config and the envImportSuccess dict after the first n
\* settings were fetched (videoToUse is fetched only while it is empty)
RECURSIVE FetchSettings(_, _, _)
FetchSettings(e, cfg, n) ==
    IF n = 0 THEN [config |-> cfg, success |-> <<>>]
    ELSE LET before == FetchSettings(e, cfg, n - 1)
             setting == Settings[n]
             skipped == /\ setting.field = "videoToUse"
                        /\ before.config.videoToUse # PyStr("")
             value == ConfigFetch(e, setting.name, before.config[setting.field],
                                  setting.casting, setting.validation)
         IN  IF skipped THEN before
             ELSE [config |-> [before.config EXCEPT ![setting.field] = value],
                   success |-> DictPut(before.success, DictKey(value),
                                       ImportSucceeded(value, setting.needsBool))]

\* a configuration that forces nothing downstream
Cascade_None(cfg) == cfg

\* lines 244-254: an overwritten stage forces the later stages
Cascade(cfg) ==
    LET topic == IF cfg.overwriteTranscriptData = PyBool(TRUE)
                 THEN [cfg EXCEPT !.overwriteTopicModel = PyBool(TRUE)] ELSE cfg
    IN  IF topic.overwriteTopicModel = PyBool(TRUE)
        THEN [topic EXCEPT !.overwriteQuestionData = PyBool(TRUE)] ELSE topic

\* line 241
ImportProblems(success) == \E k \in DOMAIN success : success[k] = FALSE

(***************************************************************************)
(* The cache (dataLoader, dataSaver) and the caption folder.               *)
(* An object the cache holds has a type and, when it is a tuple or a list, *)
(* items; the artifacts themselves are named by texts: "T1" is the         *)
(* transcript parsed from captions "T1", "W1" its windows, "Q(W1,A)" the   *)
(* questions resolved against "W1" from the model output "A".              *)
(***************************************************************************)
PyObject(type, items) == [type |-> type, items |-> items]
NoObject == PyObject("NoneType", <<>>)

TranscriptIds == {"T1", "T2"}

\* what getCombinedTranscripts returns for a transcript
WindowsOf(t) == IF t = "T1" THEN "W1" ELSE "W2"

\* what processResponseData returns for a model output and the windows cited
QuestionsOf(w, out) == "Q(" \o w \o "," \o out \o ")"

ModelOutputs == {"A", "B"}

\* what runnable.invoke and processResponseData do in one generation: an
\* output that resolves, an exception of the service, or an output whose
\* citation makes processResponseData raise
InvokeOutcomes == ModelOutputs \cup {"raises", "badCitation"}

TranscriptPayloads ==
    {NoObject}
      \cup {PyObject("tuple", <<"srt", t, WindowsOf(t)>>) : t \in TranscriptIds}
      \cup {PyObject("tuple", <<"srt", "T1">>),
            PyObject("tuple", <<"srt", "T1", None>>),
            PyObject("list", <<"srt", "T1", "W1">>)}

QuestionPayloads ==
    {NoObject}
      \cup {PyObject("tuple", <<QuestionsOf(WindowsOf(t), "A")>>) : t \in TranscriptIds}
      \cup {PyObject("tuple", <<>>),
            PyObject("tuple", <<None>>),
            PyObject("tuple", <<QuestionsOf("W1", "A"), "extra">>),
            PyObject("list", <<QuestionsOf("W1", "A")>>),
            PyObject("int", <<>>)}

\* dataLoader(config, kind): the object saved for the configuration, None
\* when there is none
DataLoader(cache) == cache

\* dataSaver(payload, config, kind): the cache entry after saving the tuple
DataSaver(payload) == PyObject("tuple", payload)

CaptionStates == {"noCaptionsFolder", "noVideoFolder", "noSrtFiles", "noCues", "ok"}

\* transcriptLoader.py lines 55-71, loadTranscriptData: the three fields
LoadTranscriptData(loadedData) ==
    IF loadedData.type = "NoneType" THEN <<None, None, None>>
    ELSE IF loadedData.type # "tuple" \/ Len(loadedData.items) # 3
         THEN <<None, None, None>>
         ELSE loadedData.items

\* a loader that treats every saved question payload as broken
LoadQuestionData_Discards(loadedData) ==
    IF loadedData.type \notin {"NoneType", "tuple", "list"} THEN "TypeError" ELSE None

\* LangChainQuestionGenerator.py lines 146-160, loadQuestionData:
\* responseInfo, or TypeError when len() or the unpacking cannot take the
\* object (its type is not checked)
LoadQuestionData(loadedData) ==
    IF loadedData.type = "NoneType" THEN None
    ELSE IF loadedData.type \notin {"tuple", "list"} THEN "TypeError"
    ELSE IF Len(loadedData.items) # 1 THEN None
    ELSE loadedData.items[1]

\* transcriptLoader.py line 254
TryLoadTranscript(cfg, overwriteArg) ==
    ~Truthy(cfg.overwriteTranscriptData) /\ ~overwriteArg

\* LangChainQuestionGenerator.py line 187
TryLoadQuestions(cfg, overwriteArg) ==
    ~Truthy(cfg.overwriteQuestionData) /\ ~overwriteArg

(***************************************************************************)
(* configVars.setFromEnv                                                   *)
(***************************************************************************)
\* lines 133-137
SetFromEnvNoFile ==
    /\ pipePc = "config"
    /\ ~dotenvExists
    /\ pipeLog' = pipeLog \o <<"setFromEnv", "exit">>
    /\ pipePc' = "exited"
    /\ UNCHANGED <<dotenvExists, env, config, envImportSuccess, transcriptCache,
                   questionCache, captions, videoData, questionData>>
    /\ UNCHANGED <<runs, overwrite, passVideoData, returned, segVars, resolveVars, botVars, srtVars>>

\* lines 154-242: some import failed
SetFromEnvExits ==
    /\ pipePc = "config"
    /\ dotenvExists
    /\ LET fetched == FetchSettings(env, config, Len(Settings))
       IN  /\ ImportProblems(fetched.success)
           /\ config' = fetched.config
           /\ envImportSuccess' = fetched.success
    /\ pipeLog' = pipeLog \o <<"setFromEnv", "exit">>
    /\ pipePc' = "exited"
    /\ UNCHANGED <<dotenvExists, env, transcriptCache, questionCache, captions,
                   videoData, questionData>>
    /\ UNCHANGED <<runs, overwrite, passVideoData, returned, segVars, resolveVars, botVars, srtVars>>

\* lines 154-256: every import succeeded
SetFromEnvSucceeds ==
    /\ pipePc = "config"
    /\ dotenvExists
    /\ LET fetched == FetchSettings(env, config, Len(Settings))
       IN  /\ ~ImportProblems(fetched.success)
           /\ config' = Cascade(fetched.config)
           /\ envImportSuccess' = fetched.success
    /\ pipeLog' = pipeLog \o <<"setFromEnv">>
    /\ pipePc' = "transcript"
    /\ UNCHANGED <<dotenvExists, env, transcriptCache, questionCache, captions,
                   videoData, questionData>>
    /\ UNCHANGED <<runs, overwrite, passVideoData, returned, segVars, resolveVars, botVars, srtVars>>

(***************************************************************************)
(* retrieveTranscript                                                      *)
(***************************************************************************)
\* the start of a call, and the cache read of lines 254-255 when it is made
TranscriptCall ==
    <<"retrieveTranscript">>
      \o (IF TryLoadTranscript(config, overwrite)
          THEN <<"dataLoader:transcriptData">> ELSE <<>>)

\* lines 254-256: nothing usable was loaded
MustMakeTranscript ==
    \/ ~TryLoadTranscript(config, overwrite)
    \/ LoadTranscriptData(DataLoader(transcriptCache))[3] = None

\* lines 253-261: the cached transcript data is returned
RetrieveTranscriptLoads ==
    /\ pipePc = "transcript"
    /\ ~MustMakeTranscript
    /\ LET loaded == LoadTranscriptData(DataLoader(transcriptCache))
       IN  videoData' = <<[srtFiles |-> loaded[1], transcript |-> loaded[2],
                           combinedTranscript |-> loaded[3]]>>
    /\ pipeLog' = pipeLog \o TranscriptCall
    /\ pipePc' = "questions"
    /\ UNCHANGED <<dotenvExists, env, config, envImportSuccess, transcriptCache,
                   questionCache, captions, questionData>>
    /\ UNCHANGED <<runs, overwrite, passVideoData, returned, segVars, resolveVars, botVars, srtVars>>

\* lines 263-266 with makeTranscriptData(load=False), lines 48-53
RetrieveTranscriptGenerates ==
    /\ pipePc = "transcript"
    /\ captions.state = "ok"
    /\ MustMakeTranscript
    /\ pipeLog' = pipeLog \o TranscriptCall
          \o <<"validateVideoFiles", "processSrtFiles",
               "getCombinedTranscripts", "dataSaver:transcriptData">>
    /\ LET made == <<"srt", captions.parsed, WindowsOf(captions.parsed)>>
       IN  /\ videoData' = <<[srtFiles |-> made[1], transcript |-> made[2],
                              combinedTranscript |-> made[3]]>>
           /\ transcriptCache' = DataSaver(made)
    /\ pipePc' = "questions"
    /\ UNCHANGED <<dotenvExists, env, config, envImportSuccess, questionCache,
                   captions, questionData>>
    /\ UNCHANGED <<runs, overwrite, passVideoData, returned, segVars, resolveVars, botVars, srtVars>>

\* a stage that saves the fields it has before it ends the process
RetrieveTranscriptExits_SavesFirst ==
    /\ pipePc = "transcript"
    /\ captions.state # "ok"
    /\ MustMakeTranscript
    /\ pipeLog' = pipeLog \o TranscriptCall
          \o <<"validateVideoFiles", "dataSaver:transcriptData", "exit">>
    /\ transcriptCache' = DataSaver(<<None, None, None>>)
    /\ pipePc' = "exited"
    /\ UNCHANGED <<dotenvExists, env, config, envImportSuccess, captions,
                   questionCache, videoData, questionData>>
    /\ UNCHANGED <<runs, overwrite, passVideoData, returned, segVars, resolveVars, botVars, srtVars>>

\* lines 94-114 and 179-181: sys.exit in validateVideoFiles (which creates a
\* missing caption folder first) or in processSrtFiles
RetrieveTranscriptExits ==
    /\ pipePc = "transcript"
    /\ captions.state # "ok"
    /\ MustMakeTranscript
    /\ pipeLog' = pipeLog \o TranscriptCall
          \o <<"validateVideoFiles">>
          \o (IF captions.state = "noCues" THEN <<"processSrtFiles">> ELSE <<>>)
          \o <<"exit">>
    /\ captions' = IF captions.state = "noCaptionsFolder"
                   THEN [captions EXCEPT !.state = "noVideoFolder"] ELSE captions
    /\ pipePc' = "exited"
    /\ UNCHANGED <<dotenvExists, env, config, envImportSuccess, transcriptCache,
                   questionCache, videoData, questionData>>
    /\ UNCHANGED <<runs, overwrite, passVideoData, returned, segVars, resolveVars, botVars, srtVars>>

(***************************************************************************)
(* retrieveLangChainQuestions                                              *)
(***************************************************************************)
\* what a run that completes hands back to its caller: the TranscriptData of
\* retrieveTranscript and the responseInfo of retrieveLangChainQuestions
Returned(info) == [run |-> runs, videoData |-> videoData[1], responseInfo |-> info]

\* the start of a call, and the cache read of lines 187-188 when it is made
QuestionsCall ==
    <<"retrieveLangChainQuestions">>
      \o (IF TryLoadQuestions(config, overwrite)
          THEN <<"dataLoader:questionData">> ELSE <<>>)

\* lines 187-190: nothing usable was loaded
MustMakeQuestions ==
    \/ ~TryLoadQuestions(config, overwrite)
    \/ LoadQuestionData(DataLoader(questionCache)) = None

\* lines 186-193: the cached question data is returned
RetrieveQuestionsLoads ==
    /\ pipePc = "questions"
    /\ ~MustMakeQuestions
    /\ LoadQuestionData(DataLoader(questionCache)) # "TypeError"
    /\ pipeLog' = pipeLog \o QuestionsCall
    /\ questionData' = <<[responseInfo |-> LoadQuestionData(DataLoader(questionCache)),
                          rawResponseInfo |-> None, retriever |-> None]>>
    /\ pipePc' = "done"
    /\ UNCHANGED <<dotenvExists, env, config, envImportSuccess, transcriptCache,
                   questionCache, captions, videoData>>
    /\ returned' = Append(returned, Returned(LoadQuestionData(DataLoader(questionCache))))
    /\ UNCHANGED <<runs, overwrite, passVideoData, segVars, resolveVars, botVars, srtVars>>

\* lines 153-160: the loaded object has no len(); the TypeError ends the run
RetrieveQuestionsLoadRaises ==
    /\ pipePc = "questions"
    /\ TryLoadQuestions(config, overwrite)
    /\ LoadQuestionData(DataLoader(questionCache)) = "TypeError"
    /\ pipeLog' = pipeLog \o QuestionsCall \o <<"TypeError">>
    /\ pipePc' = "exited"
    /\ UNCHANGED <<dotenvExists, env, config, envImportSuccess, transcriptCache,
                   questionCache, captions, videoData, questionData>>
    /\ UNCHANGED <<runs, overwrite, passVideoData, returned, segVars, resolveVars, botVars, srtVars>>

\* a stage that builds the bot and the retriever before it looks at videoData
RetrieveQuestionsExits_InitializesFirst ==
    /\ pipePc = "questions"
    /\ MustMakeQuestions
    /\ ~passVideoData
    /\ pipeLog' = pipeLog \o QuestionsCall \o <<"LangChainBot", "makeRetriever", "exit">>
    /\ pipePc' = "exited"
    /\ UNCHANGED <<dotenvExists, env, config, envImportSuccess, transcriptCache,
                   questionCache, captions, videoData, questionData>>
    /\ UNCHANGED <<runs, overwrite, passVideoData, returned, segVars, resolveVars, botVars, srtVars>>

\* lines 195-199: generation is needed and the call passed no videoData
RetrieveQuestionsExits ==
    /\ pipePc = "questions"
    /\ MustMakeQuestions
    /\ ~passVideoData
    /\ pipeLog' = pipeLog \o QuestionsCall \o <<"exit">>
    /\ pipePc' = "exited"
    /\ UNCHANGED <<dotenvExists, env, config, envImportSuccess, transcriptCache,
                   questionCache, captions, videoData, questionData>>
    /\ UNCHANGED <<runs, overwrite, passVideoData, returned, segVars, resolveVars, botVars, srtVars>>

\* lines 200-209 with initialize (lines 121-128), makeQuestionData(load=False)
\* (lines 141-144) and saveQuestionData (lines 166-171): the call passed the
\* videoData of retrieveTranscript
RetrieveQuestionsGenerates ==
    /\ pipePc = "questions"
    /\ MustMakeQuestions
    /\ passVideoData
    /\ \E out \in ModelOutputs :
          /\ pipeLog' = pipeLog \o QuestionsCall
                \o <<"LangChainBot", "makeRetriever", "invoke", "processResponseData",
                     "dataSaver:questionData">>
          /\ LET made == QuestionsOf(videoData[1].combinedTranscript, out)
             IN  /\ questionData' = <<[responseInfo |-> made, rawResponseInfo |-> out,
                                       retriever |-> "retriever"]>>
                 /\ questionCache' = DataSaver(<<made>>)
                 /\ returned' = Append(returned, Returned(made))
    /\ pipePc' = "done"
    /\ UNCHANGED <<dotenvExists, env, config, envImportSuccess, transcriptCache,
                   captions, videoData>>
    /\ UNCHANGED <<runs, overwrite, passVideoData, segVars, resolveVars, botVars, srtVars>>

\* lines 200-204: runnable.invoke or processResponseData raises; the
\* exception ends the run before saveQuestionData
RetrieveQuestionsRaises ==
    /\ pipePc = "questions"
    /\ MustMakeQuestions
    /\ passVideoData
    /\ \E out \in InvokeOutcomes \ ModelOutputs :
          /\ pipeLog' = pipeLog \o QuestionsCall
                \o <<"LangChainBot", "makeRetriever", "invoke">>
                \o (IF out = "badCitation" THEN <<"processResponseData">> ELSE <<>>)
                \o <<"raises">>
    /\ pipePc' = "exited"
    /\ UNCHANGED <<dotenvExists, env, config, envImportSuccess, transcriptCache,
                   questionCache, captions, videoData, questionData>>
    /\ UNCHANGED <<runs, overwrite, passVideoData, returned, segVars, resolveVars, botVars, srtVars>>

\* the pipeline is run again, as a new process: the cache, the caption
\* folder and the environment are those the last run left
PipeRerun ==
    /\ pipePc \in {"done", "exited"}
    /\ runs < MaxRuns
    /\ runs' = runs + 1
    /\ config' = DefaultConfig
    /\ envImportSuccess' = <<>>
    /\ videoData' = <<>>
    /\ questionData' = <<>>
    /\ pipeLog' = Append(pipeLog, "run")
    /\ pipePc' = "config"
    /\ UNCHANGED <<dotenvExists, env, transcriptCache, questionCache, captions,
                   overwrite, passVideoData, returned>>
    /\ UNCHANGED <<segVars, resolveVars, botVars, srtVars>>

PipeNext ==
    \/ PipeRerun
    \/ SetFromEnvNoFile
    \/ SetFromEnvExits
    \/ SetFromEnvSucceeds
    \/ RetrieveTranscriptLoads
    \/ RetrieveTranscriptGenerates
    \/ RetrieveTranscriptExits
    \/ RetrieveQuestionsLoads
    \/ RetrieveQuestionsLoadRaises
    \/ RetrieveQuestionsExits
    \/ RetrieveQuestionsGenerates
    \/ RetrieveQuestionsRaises

\* the settings of a run: valid credentials, video and prompts, any overwrite
\* flags
PipeEnvs ==
    {[name \in EnvNames |->
         CASE name = "OVERWRITE_EXISTING_TRANSCRIPT" -> t
           [] name = "OVERWRITE_EXISTING_TOPICMODEL" -> m
           [] name = "OVERWRITE_EXISTING_QUESTIONS" -> q
           [] name \in {"WINDOW_SIZE", "LANGCHAIN_PROMPT", "QUESTION_PROMPT"} -> <<>>
           [] OTHER -> <<"k">>] :
        t \in {<<>>, <<"0">>, <<"1">>},
        m \in {<<"0">>, <<"1">>},
        q \in {<<"0">>, <<"1">>, <<"x">>}}

PipeIdle ==
    /\ dotenvExists = FALSE
    /\ env = <<>>
    /\ config = DefaultConfig
    /\ envImportSuccess = <<>>
    /\ transcriptCache = NoObject
    /\ questionCache = NoObject
    /\ captions = [state |-> "ok", parsed |-> "T1"]
    /\ videoData = <<>>
    /\ questionData = <<>>
    /\ pipeLog = <<>>
    /\ pipePc = "idle"
    /\ runs = 0
    /\ overwrite = FALSE
    /\ passVideoData = FALSE
    /\ returned = <<>>

\* a run starts with the configVars object just constructed; the caption
\* files parse to "T2", the cache may hold data made from earlier files; the
\* runs without a .env file are taken from an empty cache only
PipeStart ==
    /\ dotenvExists \in BOOLEAN
    /\ env \in PipeEnvs
    /\ config = DefaultConfig
    /\ envImportSuccess = <<>>
    /\ transcriptCache \in TranscriptPayloads
    /\ questionCache \in QuestionPayloads
    /\ dotenvExists \/ (transcriptCache = NoObject /\ questionCache = NoObject)
    /\ captions \in [state : CaptionStates, parsed : {"T2"}]
    /\ videoData = <<>>
    /\ questionData = <<>>
    /\ pipeLog = <<>>
    /\ pipePc = "config"
    /\ runs = 1
    /\ overwrite \in BOOLEAN
    /\ passVideoData \in BOOLEAN
    /\ returned = <<>>

(***************************************************************************)
(* processSrtFiles                                                         *)
(* A line of the file is either a plain text, body, or a timing line       *)
(* "start --> end", whose two timestamps are the fields of                 *)
(* hours:minutes:seconds,milliseconds.                                     *)
(***************************************************************************)
PlainLine(body) == [body |-> body, times |-> <<>>]
TimingLine(start, end) == [body |-> "-->", times |-> <<start, end>>]

\* the texts a cue may show, as written in the file
RawTexts == {"a", " b ", "7"}

\* str.strip() on the bodies of the model
StripLine(body) ==
    CASE body = " b " -> "b"
      [] body = " " -> ""
      [] OTHER -> body

\* str.isdigit() on a stripped body
IsDigit(body) == body \in {ToString(n) : n \in 0..9}

\* line 165, arrow in line
HasArrow(line) == line.times # <<>>

\* datetime.strptime(text, "%H:%M:%S,%f"): the instant, in milliseconds
\* since midnight
SrtStrptime(text) == ((text[1] * 60 + text[2]) * 60 + text[3]) * 1000 + text[4]

\* the timing lines of the model
CueTimes ==
    {<<<<0, 0, 1, 0>>, <<0, 0, 2, 500>>>>,
     <<<<0, 1, 0, 0>>, <<0, 1, 1, 0>>>>}

\* a cue: its timing line and its text lines
Cues ==
    {[start |-> t[1], end |-> t[2], text |-> x] :
        t \in CueTimes, x \in (SeqsUpTo(RawTexts, MaxTextLines) \ {<<>>})}

\* the lines of one cue, numbered n: index line, timing line, text lines
\* and the blank separator
CueLines(cue, n) ==
    <<PlainLine(ToString(n)), TimingLine(cue.start, cue.end)>>
      \o [i \in 1..Len(cue.text) |-> PlainLine(cue.text[i])]
      \o <<PlainLine("")>>

\* the file written from a sequence of cues
RECURSIVE FileOf(_)
FileOf(cues) ==
    IF cues = <<>> THEN <<>>
    ELSE FileOf(SubSeq(cues, 1, Len(cues) - 1)) \o CueLines(cues[Len(cues)], Len(cues))

\* the state after lines 150-159: the file of some cues, or that file
\* without its last blank line
SrtStart ==
    /\ srtCues \in SeqsUpTo(Cues, MaxCues)
    /\ srtLines \in {FileOf(srtCues),
                     SubSeq(FileOf(srtCues), 1, Len(FileOf(srtCues)) - 1)}
    /\ srtPos = 0
    /\ sentence = <<>>
    /\ startTime = <<>>
    /\ endTime = <<>>
    /\ srtTranscript = <<>>
    /\ srtPc = "loop"

\* line 162: the line the loop is at, stripped
CurrentLine ==
    LET line == srtLines[srtPos + 1]
    IN  [line EXCEPT !.body = StripLine(line.body)]

\* lines 163-164: a line of digits is skipped
SrtIndexLine ==
    /\ srtPc = "loop"
    /\ srtPos < Len(srtLines)
    /\ IsDigit(CurrentLine.body)
    /\ srtPos' = srtPos + 1
    /\ UNCHANGED <<srtCues, srtLines, sentence, startTime, endTime, srtTranscript, srtPc>>
    /\ UNCHANGED <<segVars, resolveVars, botVars, pipeVars>>

\* lines 165-168: a timing line sets startTime and endTime
SrtTimingLine ==
    /\ srtPc = "loop"
    /\ srtPos < Len(srtLines)
    /\ ~IsDigit(CurrentLine.body)
    /\ HasArrow(CurrentLine)
    /\ startTime' = <<SrtStrptime(CurrentLine.times[1])>>
    /\ endTime' = <<SrtStrptime(CurrentLine.times[2])>>
    /\ srtPos' = srtPos + 1
    /\ UNCHANGED <<srtCues, srtLines, sentence, srtTranscript, srtPc>>
    /\ UNCHANGED <<segVars, resolveVars, botVars, pipeVars>>

\* lines 169-170, sentence += " " + line: sentence is kept as the list of
\* the lines added, and line 173 strips the leading space, which is
\* " ".join of the list
SrtTextLine ==
    /\ srtPc = "loop"
    /\ srtPos < Len(srtLines)
    /\ ~IsDigit(CurrentLine.body)
    /\ ~HasArrow(CurrentLine)
    /\ CurrentLine.body # ""
    /\ sentence' = Append(sentence, CurrentLine.body)
    /\ srtPos' = srtPos + 1
    /\ UNCHANGED <<srtCues, srtLines, startTime, endTime, srtTranscript, srtPc>>
    /\ UNCHANGED <<segVars, resolveVars, botVars, pipeVars>>

\* lines 171-175: a blank line appends a record and clears sentence
SrtBlankLine ==
    /\ srtPc = "loop"
    /\ srtPos < Len(srtLines)
    /\ ~IsDigit(CurrentLine.body)
    /\ ~HasArrow(CurrentLine)
    /\ CurrentLine.body = ""
    /\ srtTranscript' = Append(srtTranscript,
                               [Line |-> JoinLines(sentence), Start |-> startTime,
                                End |-> endTime])
    /\ sentence' = <<>>
    /\ srtPos' = srtPos + 1
    /\ UNCHANGED <<srtCues, srtLines, startTime, endTime, srtPc>>
    /\ UNCHANGED <<segVars, resolveVars, botVars, pipeVars>>

\* lines 177-181: no record at the end of the file ends the process
SrtExit ==
    /\ srtPc = "loop"
    /\ srtPos = Len(srtLines)
    /\ Len(srtTranscript) = 0
    /\ srtPc' = "exited"
    /\ UNCHANGED <<srtCues, srtLines, srtPos, sentence, startTime, endTime, srtTranscript>>
    /\ UNCHANGED <<segVars, resolveVars, botVars, pipeVars>>

\* lines 177-187: the records are returned
SrtReturn ==
    /\ srtPc = "loop"
    /\ srtPos = Len(srtLines)
    /\ Len(srtTranscript) # 0
    /\ srtPc' = "returned"
    /\ UNCHANGED <<srtCues, srtLines, srtPos, sentence, startTime, endTime, srtTranscript>>
    /\ UNCHANGED <<segVars, resolveVars, botVars, pipeVars>>

SrtNext ==
    \/ SrtIndexLine
    \/ SrtTimingLine
    \/ SrtTextLine
    \/ SrtBlankLine
    \/ SrtExit
    \/ SrtReturn

(***************************************************************************)
(* Specifications                                                          *)
(***************************************************************************)
SegInit == SegStart /\ ResolveIdle /\ BotIdle /\ PipeIdle /\ SrtIdle

SpecSeg == SegInit /\ [][SegNext]_vars

ResolveInit == ResolveStart /\ SegIdle /\ BotIdle /\ PipeIdle /\ SrtIdle

SpecResolve == ResolveInit /\ [][ResolveNext]_vars

BotInit == BotStart /\ SegIdle /\ ResolveIdle /\ PipeIdle /\ SrtIdle

SpecBot == BotInit /\ [][BotNext]_vars

PipeInit == PipeStart /\ SegIdle /\ ResolveIdle /\ BotIdle /\ SrtIdle

SpecPipe == PipeInit /\ [][PipeNext]_vars

\* the settings setFromEnv may find: credentials, video and prompts unset,
\* empty or given, a window size and flags unset or any text
CfgEnvs ==
    {[name \in EnvNames |->
         CASE name = "OPENAI_API_KEY" -> key
           [] name = "AZURE_OPENAI_ENDPOINT" -> base
           [] name = "VIDEO_TO_USE" -> video
           [] name = "WINDOW_SIZE" -> window
           [] name = "OVERWRITE_EXISTING_TRANSCRIPT" -> t
           [] name = "OVERWRITE_EXISTING_TOPICMODEL" -> m
           [] name = "OVERWRITE_EXISTING_QUESTIONS" -> q
           [] name = "LANGCHAIN_PROMPT" -> label
           [] name = "QUESTION_PROMPT" -> bot
           [] OTHER -> <<"k">>] :
        key \in {<<>>, <<"">>, <<"k">>},
        base \in {<<>>, <<"k">>},
        video \in {<<>>, <<"">>, <<"v">>},
        window \in {<<>>, <<"-1">>, <<"0">>, <<"2">>, <<"x">>},
        t \in {<<>>, <<"0">>, <<"1">>, <<"x">>},
        m \in {<<>>, <<"0">>, <<"1">>, <<"x">>},
        q \in {<<>>, <<"0">>, <<"1">>, <<"x">>},
        label \in {<<>>, <<"">>, <<"p">>},
        bot \in {<<>>, <<"">>}}

\* main() up to config.setFromEnv(): a configVars object just constructed
CfgStart ==
    /\ dotenvExists \in BOOLEAN
    /\ env \in CfgEnvs
    /\ config = DefaultConfig
    /\ envImportSuccess = <<>>
    /\ transcriptCache = NoObject
    /\ questionCache = NoObject
    /\ captions = [state |-> "ok", parsed |-> "T1"]
    /\ videoData = <<>>
    /\ questionData = <<>>
    /\ pipeLog = <<>>
    /\ pipePc = "config"
    /\ runs = 1
    /\ overwrite = FALSE
    /\ passVideoData = FALSE
    /\ returned = <<>>

CfgNext == SetFromEnvNoFile \/ SetFromEnvExits \/ SetFromEnvSucceeds

CfgInit == CfgStart /\ SegIdle /\ ResolveIdle /\ BotIdle /\ SrtIdle

SpecCfg == CfgInit /\ [][CfgNext]_vars

(***************************************************************************)
(* configVars.set (configData.py lines 78-92), called on the object        *)
(* __init__ has built.  pipeLog keeps one entry for each call.             *)
(***************************************************************************)
\* the keys of the object's __dict__: the five credentials are the one
\* attribute openAIParams; logLevel and useKeyBERT, which nothing modelled
\* reads, are not among the fields of config and are never passed to set
AttrNames(cfg) ==
    ((DOMAIN cfg) \ {CredParts[i] : i \in 1..Len(CredParts)}) \cup {"openAIParams"}

\* getattr(object, n) for n among the keys of __dict__
Getattr(cfg, n) ==
    IF n = "openAIParams" THEN <<"dict", [i \in 1..Len(CredParts) |-> cfg[CredParts[i]]]>>
    ELSE cfg[n]

\* line 90, self.name = value: the attribute written is the one called
\* "name", whatever the parameter name holds
SetAttrName(cfg, value) ==
    [n \in (DOMAIN cfg) \cup {"name"} |-> IF n = "name" THEN value ELSE cfg[n]]

SetNames == {"windowSize", "videoToUse", "overwriteQuestionData", "openAIParams",
             "name", "window_size"}

SetValues == {PyInt(60), PyStr("v"), PyBool(TRUE), PyNone}

SetStart ==
    /\ dotenvExists = FALSE
    /\ env = <<>>
    /\ config = DefaultConfig
    /\ envImportSuccess = <<>>
    /\ transcriptCache = NoObject
    /\ questionCache = NoObject
    /\ captions = [state |-> "ok", parsed |-> "T1"]
    /\ videoData = <<>>
    /\ questionData = <<>>
    /\ pipeLog = <<>>
    /\ pipePc = "set"
    /\ runs = 0
    /\ overwrite = FALSE
    /\ passVideoData = FALSE
    /\ returned = <<>>

\* lines 89-90: name is a key of __dict__
SetAssigns ==
    /\ pipePc = "set"
    /\ Len(pipeLog) < MaxSets
    /\ \E name \in SetNames, value \in SetValues :
          /\ name \in AttrNames(config)
          /\ config' = SetAttrName(config, value)
          /\ pipeLog' = Append(pipeLog, [name |-> name, value |-> value, before |-> config,
                                         after |-> config', raised |-> None])
    /\ UNCHANGED <<dotenvExists, env, envImportSuccess, transcriptCache, questionCache,
                   captions, videoData, questionData, pipePc, runs, overwrite,
                   passVideoData, returned>>
    /\ UNCHANGED <<segVars, resolveVars, botVars, srtVars>>

\* lines 91-92: any other name raises NameError; the caller goes on
SetRaises ==
    /\ pipePc = "set"
    /\ Len(pipeLog) < MaxSets
    /\ \E name \in SetNames, value \in SetValues :
          /\ name \notin AttrNames(config)
          /\ pipeLog' = Append(pipeLog, [name |-> name, value |-> value, before |-> config,
                                         after |-> config, raised |-> "NameError"])
    /\ UNCHANGED <<dotenvExists, env, config, envImportSuccess, transcriptCache,
                   questionCache, captions, videoData, questionData, pipePc, runs,
                   overwrite, passVideoData, returned>>
    /\ UNCHANGED <<segVars, resolveVars, botVars, srtVars>>

SetNext == SetAssigns \/ SetRaises

SetInit == SetStart /\ SegIdle /\ ResolveIdle /\ BotIdle /\ SrtIdle

SpecSet == SetInit /\ [][SetNext]_vars

SrtInit == SrtStart /\ SegIdle /\ ResolveIdle /\ BotIdle /\ PipeIdle

SpecSrt == SrtInit /\ [][SrtNext]_vars

(***************************************************************************)
(* Properties of getCombinedTranscripts                                    *)
(***************************************************************************)
WindowTexts == [i \in 1..Len(combinedTranscriptList) |-> combinedTranscriptList[i].CombinedLines]

IsRun(rows) == \A i \in rows, j \in rows : \A k \in i..j : k \in rows

\* C1: coverage - for a non-empty transcript sorted by start, the space-join
\* of the returned windows' combined texts equals the space-join of all
\* caption texts in original order (no caption dropped, none repeated)
C1_Coverage ==
    (segPc = "done" /\ IsSortedByStart(transcriptIn))
        => JoinLines(WindowTexts) = JoinLines(LinesOf(transcriptIn))

\* C2: non-overlap - for a transcript sorted by start, every emitted window
\* is built from a contiguous run of the sorted transcript and no caption is
\* a member of two different windows
C2_NonOverlap ==
    IsSortedByStart(transcriptIn)
        => /\ \A i \in 1..Len(slicedRows) : IsRun(slicedRows[i])
           /\ \A i \in 1..Len(slicedRows), j \in 1..Len(slicedRows) :
                  i # j => slicedRows[i] \cap slicedRows[j] = {}

\* C3: termination - for a transcript sorted by start, after every emission
\* the cursor moves strictly forward or the loop ends
C3_EmissionAdvances ==
    [][(IsSortedByStart(transcriptIn)
          /\ Len(combinedTranscriptList') > Len(combinedTranscriptList))
        => (currStart' > currStart \/ ~(currStart' < transcript[Len(transcript)].Start))]_vars

(***************************************************************************)
(* Properties of processResponseData                                       *)
(***************************************************************************)
ValidFirstCitation(question) ==
    /\ question.citations # <<>>
    /\ question.citations[1] \in 0..(Len(citedTranscript) - 1)

\* C4: citation round-trip - a question whose first citation ID i is a valid
\* index resolves to a record with the Start and End of window i, whatever
\* the other citation IDs and the insertionTime, and with the question's own
\* Topic, Question, Answers, Correct Answer Index and Reason; the call
\* returns one record per question, in input order
C4_CitationRoundTrip ==
    /\ \A k \in 1..Len(processedData) :
          ValidFirstCitation(responseInfo[k]) =>
              LET question == responseInfo[k]
                  window == citedTranscript[question.citations[1] + 1]
              IN  /\ processedData[k].Start = Strptime(window.Start)
                  /\ processedData[k].End = Strptime(window.End)
                  /\ processedData[k].Topic = question.topic
                  /\ processedData[k].Question = question.question
                  /\ processedData[k].Answers = question.answers
                  /\ processedData[k].CorrectAnswerIndex = question.correctAnswerIndex
                  /\ processedData[k].Reason = question.reason
    /\ resolvePc = "returned" =>
          /\ resolved = processedData
          /\ Len(resolved) = Len(responseInfo)
    /\ (resolvePc = "IndexError" /\ index < Len(responseInfo))
          => ~ValidFirstCitation(responseInfo[index + 1])

\* C4 witness: the call returned two records, the first for a question that
\* cites window 1 first and another window second, and whose insertionTime
\* is not the End of window 1
C4_Witness ==
    /\ resolvePc = "returned"
    /\ Len(resolved) = 2
    /\ Len(citedTranscript) = 2
    /\ citedTranscript[1] # citedTranscript[2]
    /\ responseInfo[1].citations = <<1, 0>>
    /\ Strptime(responseInfo[1].insertionTime) # Strptime(citedTranscript[2].End)
    /\ resolved[1].End = Strptime(citedTranscript[2].End)

\* C5: citation range check - a question whose first citation ID lies
\* outside 0..len(corpus)-1 is never resolved to a record, and the call never
\* returns when there is such a question
C5_CitationRangeCheck ==
    \A k \in 1..Len(responseInfo) :
        (responseInfo[k].citations # <<>> /\ ~ValidFirstCitation(responseInfo[k]))
            => (resolvePc # "returned" /\ Len(processedData) < k)

\* C6: missing citation - when some question has an empty citation list the
\* call returns no records and resolves no record for that question, and the
\* iteration that reaches such a question ends the call with an error
C6_MissingCitation ==
    /\ [](\A k \in 1..Len(responseInfo) :
            responseInfo[k].citations = <<>>
                => (resolvePc # "returned" /\ resolved = None /\ Len(processedData) < k))
    /\ [][(/\ resolvePc = "loop"
           /\ index < Len(responseInfo)
           /\ responseInfo[index + 1].citations = <<>>)
          => (resolvePc' = "IndexError" /\ resolved' = None
                /\ processedData' = processedData)]_vars

\* C6 witness: the call failed on a second question that has no citation,
\* after resolving the first, over a non-empty corpus
C6_Witness ==
    /\ resolvePc = "IndexError"
    /\ index = 1
    /\ Len(processedData) = 1
    /\ responseInfo[2].citations = <<>>
    /\ citedTranscript # <<>>
    /\ resolved = None

\* C25: answer-index validity - every question record processResponseData
\* builds, and so every record the question stage returns and saves, has
\* exactly 4 answers and a correct-answer index in 0..3
C25_AnswerIndexValidity ==
    \A k \in 1..Len(processedData) :
        /\ Len(processedData[k].Answers) = 4
        /\ processedData[k].CorrectAnswerIndex \in 0..3

(***************************************************************************)
(* Properties of OpenAIBot.getResponse                                     *)
(***************************************************************************)
Count(log, event) == Cardinality({i \in 1..Len(log) : log[i] = event})

Ended == botPc \in {"returned", "exited"}

\* C7: retry success - once the call has ended, if one of the remote-call
\* attempts succeeded (on any attempt 1..callMaxLimit) the call returned
\* (responseText, True), and the exit 'too many failed attempts' was taken
\* only when no attempt succeeded
C7_RetrySuccess ==
    (Ended /\ Count(botLog, "ok") > 0)
        => /\ botPc = "returned"
           /\ botResult = <<response.content, TRUE>>
           /\ Count(botLog, "tooMany") = 0

\* C8: bounded retry - one invocation issues at most callMaxLimit remote
\* calls, and once callMaxLimit attempts have all failed with transient
\* errors the next step ends the process: nothing is returned and no further
\* remote call is issued
C8_BoundedRetry ==
    /\ [](/\ Count(botLog, "create") <= callMaxLimit
          /\ (Count(botLog, "create") = callMaxLimit /\ Count(botLog, "ok") = 0)
                => (botPc # "returned" /\ botResult = None))
    /\ [][(/\ botPc = "loop"
           /\ Count(botLog, "create") = callMaxLimit
           /\ Count(botLog, "ok") = 0)
          => (/\ botPc' = "exited"
              /\ botResult' = None
              /\ Count(botLog', "create") = callMaxLimit)]_vars

\* C8 witness: the process has exited after callMaxLimit remote calls that
\* failed with a rate limit, a timeout and a generic failure
C8_Witness ==
    /\ botPc = "exited"
    /\ Count(botLog, "create") = callMaxLimit
    /\ Count(botLog, "RateLimitError") = 1
    /\ Count(botLog, "Timeout") = 1
    /\ Count(botLog, "Exception") = 1
    /\ botLog[Len(botLog)] = "exit"
    /\ botResult = None

\* C9: authentication failure - an authentication error, on any attempt, is
\* followed at once by the end of the process: no remote call and no
\* cooldown comes after it
C9_AuthenticationFatal ==
    \A i \in 1..Len(botLog) :
        botLog[i] = "AuthenticationError"
            => /\ Len(botLog) = i + 1
               /\ botLog[i + 1] = "exit"
               /\ botPc = "exited"
               /\ botResult = None

\* C9 witness: the process has exited on an authentication error raised by
\* the second remote call, after a rate-limit failure and its cooldown
C9_Witness ==
    /\ botPc = "exited"
    /\ botLog = <<"create", "RateLimitError", "sleep60",
                  "create", "AuthenticationError", "exit">>

\* C20: cooldown before retry - every remote call that follows a transient
\* failure (rate limit, timeout or any other exception that is retried)
\* comes right after the fixed cooldown wait
C20_CooldownBeforeRetry ==
    \A i \in 2..Len(botLog) :
        botLog[i] = "create" => botLog[i - 1] = "sleep60"

(***************************************************************************)
(* Properties of setFromEnv and the cached stages                          *)
(***************************************************************************)
\* the environment sets the flag: its text casts to True
FlagSet(name) ==
    /\ env[name] # <<>>
    /\ Cast(PyStr(env[name][1]), "bool") = PyBool(TRUE)

\* the part of the log written by the current run
CurrentRunLog ==
    LET marks == {i \in 1..Len(pipeLog) : pipeLog[i] = "run"}
        last == IF marks = {} THEN 0 ELSE CHOOSE i \in marks : \A j \in marks : j <= i
    IN  SubSeq(pipeLog, last + 1, Len(pipeLog))

\* setFromEnv has succeeded in the current run
ConfigSucceeded == pipePc \in {"transcript", "questions", "done"}

\* C10: cascading invalidation - after setFromEnv succeeds with the
\* transcript-overwrite flag set, overwriteTopicModel and
\* overwriteQuestionData are true whatever their own environment values, and
\* a set topic-overwrite flag forces overwriteQuestionData; the question
\* stage then never reads the question cache, and when it returns it has
\* invoked the generative service and saved what it returns
C10_CascadingInvalidation ==
    /\ (ConfigSucceeded /\ FlagSet("OVERWRITE_EXISTING_TRANSCRIPT"))
          => /\ config.overwriteTopicModel = PyBool(TRUE)
             /\ config.overwriteQuestionData = PyBool(TRUE)
    /\ (ConfigSucceeded /\ FlagSet("OVERWRITE_EXISTING_TOPICMODEL"))
          => config.overwriteQuestionData = PyBool(TRUE)
    /\ (FlagSet("OVERWRITE_EXISTING_TRANSCRIPT") \/ FlagSet("OVERWRITE_EXISTING_TOPICMODEL"))
          => /\ Count(pipeLog, "dataLoader:questionData") = 0
             /\ pipePc = "done" =>
                   /\ questionData[1].rawResponseInfo \in ModelOutputs
                   /\ questionData[1].responseInfo =
                          QuestionsOf(videoData[1].combinedTranscript,
                                      questionData[1].rawResponseInfo)
                   /\ Count(CurrentRunLog, "invoke") = 1
                   /\ Count(CurrentRunLog, "dataSaver:questionData") = 1
                   /\ questionCache = PyObject("tuple", <<questionData[1].responseInfo>>)

\* C10 witness: with only the transcript flag set, a second run has
\* regenerated and saved the questions although the first run had left a
\* valid question artifact in the cache
C10_Witness ==
    /\ env["OVERWRITE_EXISTING_TRANSCRIPT"] = <<"1">>
    /\ env["OVERWRITE_EXISTING_TOPICMODEL"] = <<"0">>
    /\ env["OVERWRITE_EXISTING_QUESTIONS"] = <<"0">>
    /\ ~overwrite
    /\ runs = 2
    /\ pipePc = "done"
    /\ Count(pipeLog, "dataSaver:questionData") = 2
    /\ Count(pipeLog, "exit") = 0
    /\ questionData[1].rawResponseInfo = "B"
    /\ questionCache = PyObject("tuple", <<QuestionsOf("W2", "B")>>)

\* neither the environment nor the caller asks to overwrite
NoOverwrite ==
    /\ ~FlagSet("OVERWRITE_EXISTING_TRANSCRIPT")
    /\ ~FlagSet("OVERWRITE_EXISTING_TOPICMODEL")
    /\ ~FlagSet("OVERWRITE_EXISTING_QUESTIONS")
    /\ ~overwrite

\* the run before the current one completed both stages
PreviousRunCompleted == \E i \in 1..Len(returned) : returned[i].run = runs - 1

\* the log of a run that only loads
LoadOnlyLog ==
    <<"setFromEnv", "retrieveTranscript", "dataLoader:transcriptData",
      "retrieveLangChainQuestions", "dataLoader:questionData">>

WrongShape(payload, arity) ==
    /\ payload.type # "NoneType"
    /\ ~(payload.type = "tuple" /\ Len(payload.items) = arity)

\* C12: cache corruption recovery - a stage that reads a cache payload of
\* the wrong shape or arity (not a 3-tuple for transcript data, not a
\* 1-tuple for question data) discards it, regenerates the artifact and
\* saves it: the transcript stage goes on to the question stage when the
\* caption files are there, and the question stage completes when it was
\* given the video data, unless the generation itself raises
C12_CacheCorruptionRecovery ==
    [][/\ (/\ pipePc = "transcript"
            /\ TryLoadTranscript(config, overwrite)
            /\ WrongShape(transcriptCache, 3)
            /\ captions.state = "ok")
          => /\ pipePc' = "questions"
             /\ Count(pipeLog', "getCombinedTranscripts")
                    = Count(pipeLog, "getCombinedTranscripts") + 1
             /\ Count(pipeLog', "dataSaver:transcriptData")
                    = Count(pipeLog, "dataSaver:transcriptData") + 1
             /\ transcriptCache' =
                    DataSaver(<<"srt", captions.parsed, WindowsOf(captions.parsed)>>)
       /\ (/\ pipePc = "questions"
            /\ TryLoadQuestions(config, overwrite)
            /\ WrongShape(questionCache, 1)
            /\ passVideoData)
          => \/ /\ pipePc' = "done"
                /\ Count(pipeLog', "invoke") = Count(pipeLog, "invoke") + 1
                /\ Count(pipeLog', "dataSaver:questionData")
                       = Count(pipeLog, "dataSaver:questionData") + 1
                /\ questionCache' = DataSaver(<<questionData'[1].responseInfo>>)
             \/ /\ pipePc' = "exited"
                /\ Count(pipeLog', "raises") = Count(pipeLog, "raises") + 1]_vars

\* a step of the transcript stage that leaves the transcript cache as it
\* was, runs no window segmentation and saves nothing
NoTranscriptMade ==
    /\ transcriptCache' = transcriptCache
    /\ Count(pipeLog', "getCombinedTranscripts") = Count(pipeLog, "getCombinedTranscripts")
    /\ Count(pipeLog', "dataSaver:transcriptData")
           = Count(pipeLog, "dataSaver:transcriptData")

\* C18 as stated: fatal configuration errors in the transcript stage - when
\* the caption folder or the video's folder is missing, the video's folder
\* holds no .srt file or the file yields no cue, retrieveTranscript ends the
\* process, leaving the transcript cache as it was and running no window
\* segmentation
C18_FatalTranscriptErrors_Stated ==
    [][(pipePc = "transcript" /\ captions.state # "ok")
          => (pipePc' = "exited" /\ NoTranscriptMade)]_vars

\* C18 amended: in the same four cases retrieveTranscript leaves the
\* transcript cache as it was and runs no window segmentation, and it ends
\* the process whenever the transcript has to be generated, that is when an
\* overwrite is asked for or the cache holds no usable transcript data
C18_FatalTranscriptErrors ==
    [][(pipePc = "transcript" /\ captions.state # "ok")
          => /\ NoTranscriptMade
             /\ MustMakeTranscript => (pipePc' = "exited" /\ videoData' = videoData)
             /\ ~MustMakeTranscript => pipePc' = "questions"]_vars

\* C18 witness: the run has ended in processSrtFiles on a file without
\* cues, after it found a broken payload in the transcript cache, which is
\* still there
C18_Witness ==
    /\ pipePc = "exited"
    /\ captions.state = "noCues"
    /\ transcriptCache = PyObject("list", <<"srt", "T1", "W1">>)
    /\ CurrentRunLog = <<"setFromEnv", "retrieveTranscript", "dataLoader:transcriptData",
                         "validateVideoFiles", "processSrtFiles", "exit">>

\* the current run has rebuilt and saved the transcript artifact
TranscriptRebuilt == Count(CurrentRunLog, "dataSaver:transcriptData") = 1

\* C21: forward invalidation on rebuild - a run that has rebuilt the
\* transcript artifact, for whatever reason, and has completed the question
\* stage has generated the questions in that run from the rebuilt
\* transcript and saved them; it has not returned cached questions
C21_ForwardInvalidation ==
    (pipePc = "done" /\ TranscriptRebuilt)
        => /\ Count(CurrentRunLog, "invoke") = 1
           /\ Count(CurrentRunLog, "dataSaver:questionData") = 1
           /\ questionData[1].rawResponseInfo \in ModelOutputs
           /\ questionData[1].responseInfo =
                  QuestionsOf(videoData[1].combinedTranscript,
                              questionData[1].rawResponseInfo)

(***************************************************************************)
(* Further properties of getCombinedTranscripts                            *)
(***************************************************************************)
\* the captions whose start lies in [start, start + windowSize)
CaptionsFrom(start) ==
    SelectSeq(transcript, LAMBDA row : start <= row.Start /\ row.Start < start + windowSize)

\* C13: window contents - for a transcript sorted by start, every emitted
\* window W starts at the start of its first caption, ends at the end of its
\* last caption, and its text is the space-join, in order, of exactly the
\* captions whose start lies in [W.Start, W.Start + windowSize)
C13_WindowContents ==
    IsSortedByStart(transcriptIn) =>
        \A i \in 1..Len(combinedTranscriptList) :
            LET W == combinedTranscriptList[i]
                members == CaptionsFrom(W.Start)
            IN  /\ members # <<>>
                /\ W.Start = members[1].Start
                /\ W.End = members[Len(members)].End
                /\ W.CombinedLines = JoinLines(LinesOf(members))

\* the distinct gaps between the starts of consecutive captions
GapSizes ==
    {transcript[i + 1].Start - transcript[i].Start : i \in 1..(Len(transcript) - 1)}

\* C16: iteration bound - for a non-empty transcript sorted by start the
\* loop has run at most len(transcript) plus the number of distinct gap
\* sizes iterations, emissions and empty-window retries together, however
\* long a gap is
C16_IterationBound ==
    IsSortedByStart(transcriptIn)
        => iterations <= Len(transcript) + Cardinality(GapSizes)

\* C17: segmenter precondition - for a transcript that is empty or is not
\* sorted by start the call fails: it emits no window, never enters the
\* loop and never returns
C17_SegmenterPrecondition ==
    (transcriptIn = <<>> \/ ~IsSortedByStart(transcriptIn))
        => /\ combinedTranscriptList = <<>>
           /\ segPc \in {"call", "IndexError"}

\* the rows whose start lies in [currStart, currStart + duration)
RowsInInterval ==
    {i \in 1..Len(transcript) :
        currStart <= transcript[i].Start /\ transcript[i].Start < currStart + duration}

\* the last of a non-empty set of rows
LastRow(rows) == CHOOSE i \in rows : \A j \in rows : j <= i

\* C19: segmenter step semantics - an iteration of the loop that finds no
\* caption starting in [currStart, currStart + duration) emits nothing,
\* leaves currStart and the emitted windows as they are and adds exactly one
\* second to duration; every other iteration appends exactly one window,
\* puts currStart on the end of that window's last caption and sets duration
\* back to windowSize
C19_StepSemantics ==
    [][(segPc = "loop" /\ iterations' = iterations + 1)
          => IF RowsInInterval = {}
             THEN /\ combinedTranscriptList' = combinedTranscriptList
                  /\ currStart' = currStart
                  /\ duration' = duration + 1
             ELSE /\ Len(combinedTranscriptList') = Len(combinedTranscriptList) + 1
                  /\ SubSeq(combinedTranscriptList', 1, Len(combinedTranscriptList))
                         = combinedTranscriptList
                  /\ currStart' = transcript[LastRow(RowsInInterval)].End
                  /\ combinedTranscriptList'[Len(combinedTranscriptList')].End = currStart'
                  /\ duration' = windowSize]_vars

\* C19 witness: the loop has retried on an empty window and then emitted a
\* second window: the duration is back to windowSize and the cursor is on
\* the end of the last caption emitted
C19_Witness ==
    /\ segPc = "loop"
    /\ iterations = 3
    /\ Len(combinedTranscriptList) = 2
    /\ duration = windowSize
    /\ currStart = combinedTranscriptList[2].End
    /\ currStart > combinedTranscriptList[2].Start

\* every caption starts less than windowSize after the first caption
AllWithinFirstWindow ==
    \A i \in 1..Len(transcriptIn) :
        transcriptIn[i].Start - transcriptIn[1].Start < windowSize

\* C22: single-window case - for a non-empty sorted transcript whose
\* captions all start less than windowSize after the first one, the call
\* returns exactly one window, with the space-join of all caption texts, the
\* first caption's start and the last caption's end, after one iteration
\* (the duration is never widened)
C22_SingleWindow ==
    (/\ segPc = "done"
     /\ transcriptIn # <<>>
     /\ IsSortedByStart(transcriptIn)
     /\ AllWithinFirstWindow)
        => /\ Len(combinedTranscriptList) = 1
           /\ iterations = 1
           /\ combinedTranscriptList[1].CombinedLines = JoinLines(LinesOf(transcriptIn))
           /\ combinedTranscriptList[1].Start = transcriptIn[1].Start
           /\ combinedTranscriptList[1].End = transcriptIn[Len(transcriptIn)].End

\* C23: time order of windows - for a transcript sorted by start (every
\* record has start <= end) every emitted window has start <= end, the
\* window starts increase strictly with the window index, and a window does
\* not start before the end of the last caption of the window before it
C23_TimeOrder ==
    IsSortedByStart(transcriptIn) =>
        /\ \A i \in 1..Len(combinedTranscriptList) :
              combinedTranscriptList[i].Start <= combinedTranscriptList[i].End
        /\ \A i \in 1..(Len(combinedTranscriptList) - 1) :
              /\ combinedTranscriptList[i].Start < combinedTranscriptList[i + 1].Start
              /\ combinedTranscriptList[i].End <= combinedTranscriptList[i + 1].Start

\* the first of a non-empty set of rows
FirstRow(rows) == CHOOSE i \in rows : \A j \in rows : i <= j

\* C24: bounded window span - in every emitted window the last constituent
\* caption starts less than windowSize after the first one, also when the
\* window was emitted after the duration had been widened
C24_BoundedSpan ==
    \A i \in 1..Len(slicedRows) :
        /\ slicedRows[i] # {}
        /\ transcript[LastRow(slicedRows[i])].Start
              - transcript[FirstRow(slicedRows[i])].Start < windowSize

\* C24 witness: the second window was emitted after two retries across a
\* gap and holds two captions
C24_Witness ==
    /\ Len(slicedRows) = 2
    /\ iterations = 4
    /\ Cardinality(slicedRows[2]) = 2
    /\ combinedTranscriptList[2].Start - combinedTranscriptList[1].End > windowSize

(***************************************************************************)
(* Properties of setFromEnv alone                                          *)
(***************************************************************************)
\* the text is a decimal integer
IsIntegerText(text) == text \in DOMAIN IntOfText

\* every setting of the environment is present where required and valid
EnvValid ==
    /\ \A i \in 1..Len(CredParts) :
          /\ env[CredEnvName(CredParts[i])] # <<>>
          /\ env[CredEnvName(CredParts[i])][1] # ""
    /\ env["VIDEO_TO_USE"] # <<>> /\ env["VIDEO_TO_USE"][1] # ""
    /\ env["WINDOW_SIZE"] # <<>>
          => /\ IsIntegerText(env["WINDOW_SIZE"][1])
             /\ IntOfText[env["WINDOW_SIZE"][1]] > 0
    /\ \A name \in {"OVERWRITE_EXISTING_TRANSCRIPT", "OVERWRITE_EXISTING_TOPICMODEL",
                     "OVERWRITE_EXISTING_QUESTIONS"} :
          env[name] # <<>> => IsIntegerText(env[name][1])
    /\ \A name \in {"LANGCHAIN_PROMPT", "QUESTION_PROMPT"} :
          env[name] # <<>> => env[name][1] # ""

\* C14: configuration validation - once setFromEnv has run, the process has
\* ended whenever some setting is missing or invalid, whatever the others
\* are; setFromEnv completes only when every setting is valid, and then
\* windowSize is the configured positive integer, or 30 when WINDOW_SIZE is
\* unset
C14_ConfigurationValidation ==
    /\ (pipePc # "config" /\ ~EnvValid) => pipePc = "exited"
    /\ pipePc = "transcript"
          => /\ EnvValid
             /\ config.windowSize =
                    IF env["WINDOW_SIZE"] = <<>> THEN PyInt(30)
                    ELSE PyInt(IntOfText[env["WINDOW_SIZE"][1]])
             /\ config.windowSize[2] > 0

\* C14 witness: the process has ended on a window size of 0 alone: every
\* other setting is valid and the flags are given as 0 and 1
C14_Witness ==
    /\ pipePc = "exited"
    /\ dotenvExists
    /\ env["WINDOW_SIZE"] = <<"0">>
    /\ env["OVERWRITE_EXISTING_TRANSCRIPT"] = <<"0">>
    /\ env["OVERWRITE_EXISTING_QUESTIONS"] = <<"1">>
    /\ [env EXCEPT !["WINDOW_SIZE"] = <<"2">>] \in {e \in CfgEnvs :
            /\ e["OPENAI_API_KEY"] = <<"k">> /\ e["AZURE_OPENAI_ENDPOINT"] = <<"k">>
            /\ e["VIDEO_TO_USE"] = <<"v">>
            /\ e["LANGCHAIN_PROMPT"] # <<"">> /\ e["QUESTION_PROMPT"] = <<>>
            /\ e["OVERWRITE_EXISTING_TOPICMODEL"] # <<"x">>}

(***************************************************************************)
(* Properties of processSrtFiles                                           *)
(***************************************************************************)
\* the text lines of a cue, stripped
StrippedText(cue) == [i \in 1..Len(cue.text) |-> StripLine(cue.text[i])]

\* C15: caption parsing - for a file in which every cue is an index line, a
\* timing line, one or more text lines and a blank line, processSrtFiles
\* returns one record per cue, in file order, with the Start and End of the
\* cue's timing line and with the cue's text lines, stripped, joined by
\* single spaces
C15_CaptionParsing ==
    (srtPc = "returned" /\ srtLines = FileOf(srtCues))
        => /\ Len(srtTranscript) = Len(srtCues)
           /\ \A i \in 1..Len(srtCues) :
                 /\ srtTranscript[i].Start = <<SrtStrptime(srtCues[i].start)>>
                 /\ srtTranscript[i].End = <<SrtStrptime(srtCues[i].end)>>
                 /\ srtTranscript[i].Line = JoinLines(StrippedText(srtCues[i]))

\* the events of building the bot and the retriever, calling the service
\* and saving
GenerationEvents ==
    {"LangChainBot", "makeRetriever", "invoke", "processResponseData",
     "dataSaver:questionData"}

\* C27: question stage without inputs - when retrieveLangChainQuestions has
\* no cached question data to return (the load was skipped for an overwrite,
\* or it gave no responseInfo) and videoData is None, it ends the process
\* before a retriever is built, before the service is invoked and before
\* anything is saved, and the question cache stays as it was
C27_QuestionStageWithoutInputs ==
    [][(pipePc = "questions" /\ MustMakeQuestions /\ ~passVideoData)
          => /\ pipePc' = "exited"
             /\ questionCache' = questionCache
             /\ questionData' = questionData
             /\ returned' = returned
             /\ \A e \in GenerationEvents : Count(pipeLog', e) = Count(pipeLog, e)]_vars

\* C27 witness: a run whose call passed no videoData has ended in the
\* question stage right after reading a question payload of two items,
\* which is still in the cache
C27_Witness ==
    /\ pipePc = "exited"
    /\ ~passVideoData
    /\ questionCache = PyObject("tuple", <<QuestionsOf("W1", "A"), "extra">>)
    /\ Len(CurrentRunLog) >= 3
    /\ SubSeq(CurrentRunLog, Len(CurrentRunLog) - 2, Len(CurrentRunLog))
          = <<"retrieveLangChainQuestions", "dataLoader:questionData", "exit">>

(***************************************************************************)
(* Properties of configVars.set                                            *)
(***************************************************************************)
\* C26: configVars.set(name, value) - when name is an existing parameter the
\* call sets that parameter to value and leaves every other parameter as it
\* was; when it is not, the call raises NameError and changes nothing
C26_SetFrame ==
    \A k \in 1..Len(pipeLog) :
        LET e == pipeLog[k]
        IN  IF e.name \in AttrNames(e.before)
            THEN /\ e.raised = None
                 /\ Getattr(e.after, e.name) = e.value
                 /\ AttrNames(e.after) = AttrNames(e.before)
                 /\ \A n \in AttrNames(e.before) \ {e.name} :
                        Getattr(e.after, n) = Getattr(e.before, n)
            ELSE /\ e.raised = "NameError"
                 /\ e.after = e.before

====
